---------------------------- MODULE Spec2Model ----------------------------
(***************************************************************************)
(* Model of the resumable download engine of services/downloader.py:      *)
(* calculate_optimal_chunk_size and the retry loop of fetch_to_temp.      *)
(*                                                                         *)
(* One fetch_to_temp call is a sequential coroutine; its steps are the    *)
(* places where it awaits the network (the response, each chunk of the    *)
(* body) or the backoff sleep.  The server and the transport are the      *)
(* environment: they choose the status, the presence of Content-Length,   *)
(* where a body stops and which exception interrupts an attempt.          *)
(*                                                                         *)
(* The temp file is kept as a sequence of segments <<start, len>>: the    *)
(* file holds, in order, the resource's bytes start .. start+len-1 of     *)
(* each segment.  Adjacent segments that continue one another are merged, *)
(* so a file that is a correct prefix of the resource is <<<<0, n>>>>.    *)
(***************************************************************************)
EXTENDS Integers, Sequences, FiniteSets, TLC

\* ------------------------------------------------------------------ inputs

\* fetch_to_temp(max_retries: int = 8)
DefaultMaxRetries == 8

\* How often the server may answer a Range request with the full content.
MaxRangeIgnored == 1

\* Sizes of the remote resource: a small file (< 5 MiB) and a medium one.
SmallSize == 5 * 65536
MediumSize == 5 * 1024 * 1024

\* max_retries the caller passes for the medium file.
MediumRetries == 3

\* The calls explored: <<size of the resource, max_retries>>.
Inputs == {<<SmallSize, 1>>, <<SmallSize, DefaultMaxRetries>>,
           <<MediumSize, MediumRetries>>}

\* on_progress: None, a callback that raises at some invocations (or at
\* none), a callback that raises at every invocation
Callbacks == {"none", "flaky", "raising"}

FatalStatuses == {400, 403, 404}
OtherStatuses == {416, 503}

Min(a, b) == IF a < b THEN a ELSE b
Max(a, b) == IF a > b THEN a ELSE b

VARIABLES
    size,                 \* true length of the remote resource
    hint,                 \* meta.size as the caller passed it (0 = None)
    meta_size,            \* meta.size now (0 = None)
    max_retries,
    pc,                   \* position of the coroutine
    downloaded,
    retry_count,
    consecutive_failures,
    chunk_size,           \* chunk size of the current attempt (0 before the first)
    range_from,           \* offset of the Range header of the last request (0 = none)
    last_error,           \* exception the except clause of this round caught ("" = none)
    expected_total,
    bytes_in_chunk,
    body_pos,             \* offset in the resource of the next byte the server sends
    file_exists,
    file,                 \* content of the temp file, as segments
    partial,              \* content of the temp file when the last Range request was sent
    wait_time,            \* delay of the backoff sleep in progress (0 = none)
    range_ignored,        \* Range requests answered with status 200 so far
    result,               \* "running", "ok", or the exception raised to the caller
    on_progress,          \* the callback the caller passed, "none" for None
    progress_calls,       \* invocations of on_progress in the current attempt
    reported,             \* bytes_done of the last invocation of on_progress (0 = none)
    requests,             \* HTTP requests sent so far (counted in RequestSpec only)
    calls,                \* two concurrent calls: the locals of each (<<>> for one call)
    disk,                 \* two concurrent calls: length of the file at each path, -1 = no file
    handler,              \* the leech handler that runs, and the memory it finds (<<>> = none)
    running,              \* leech_handler_v2: the flag progress_loop tests
    updater_task,         \* leech_handler_v2: where the task of progress_loop stands ("none": no task)
    temp_path,            \* the handler's temp_path: "none" for None, "set" for the path of the file
    upload_success,       \* what the upload came to ("none": no upload so far)
    thumb,                \* the file _make_video_thumb made is on disk
    lock,                 \* TeraboxResolver._lock: its holder (0 = unlocked) and the queue of its waiters
    client,               \* TeraboxResolver._client (0 = None), the clients made and those open
    resolving,            \* where each caller of resolve() stands
    users_col,            \* the documents of the user in users_verification: the leech_count of each
    counting              \* where each call of increment_user_leech_count stands, what it read and returned

\* The state of the one call of Spec.
locals == <<size, hint, meta_size, max_retries, pc, downloaded, retry_count,
            consecutive_failures, chunk_size, range_from, last_error,
            expected_total, bytes_in_chunk, body_pos, file_exists, file,
            partial, wait_time, range_ignored, result, on_progress,
            progress_calls, reported, requests>>

\* The state of the handlers and services around the call.
services == <<lock, client, resolving, users_col, counting>>

others == <<running, updater_task, temp_path, upload_success, thumb, services>>

vars == <<locals, calls, disk, handler, others>>

\* -------------------------------------------------------- pure functions

\* A reduction that quarters the size beyond the sixth attempt and knows no
\* floor.
calculate_optimal_chunk_size_NoFloor(file_size, attempt) ==
    LET base0 == IF file_size = 0 THEN 262144
                 ELSE IF file_size < 5 * 1024 * 1024 THEN 131072
                 ELSE IF file_size < 50 * 1024 * 1024 THEN 524288
                 ELSE 1048576
        base1 == IF attempt > 3 THEN base0 \div 2 ELSE base0
    IN  IF attempt > 6 THEN base1 \div 4 ELSE base1

calculate_optimal_chunk_size(file_size, attempt) ==
    LET base0 == IF file_size = 0 THEN 262144
                 ELSE IF file_size < 5 * 1024 * 1024 THEN 131072
                 ELSE IF file_size < 50 * 1024 * 1024 THEN 524288
                 ELSE 1048576
        base1 == IF attempt > 3 THEN base0 \div 2 ELSE base0
    IN  IF attempt > 6 THEN Max(base1 \div 2, 32768) ELSE base1

Pow2(n) == IF n <= 0 THEN 1 ELSE 2 ^ n

\* wait_time of the three except clauses, from the incremented retry_count
BackoffDelay(kind, rc) ==
    IF kind = "timeout" THEN Min(Pow2(rc - 1), 15)
    ELSE IF kind = "other" THEN Min(3 * Pow2(rc - 1), 45)
    ELSE Min(Pow2(rc), 30)

\* An except Exception that is an except BaseException.
ExceptClauseCatchAll(err) ==
    IF err \in {"timeout", "read_timeout"} THEN "timeout"
    ELSE IF err \in {"other", "oserror", "cancelled"} THEN "other"
    ELSE "http"

\* A loop without the clause except Exception.
ExceptClauseNoCatchAll(err) ==
    IF err \in {"timeout", "read_timeout"} THEN "timeout"
    ELSE IF err \in {"other", "oserror", "cancelled"} THEN "none"
    ELSE "http"

\* Which except clause catches an exception of this kind: the httpx timeouts,
\* httpx.HTTPError and DownloadError, then every other Exception (OSError
\* among them); asyncio.CancelledError is a BaseException and none does.
ExceptClause(err) ==
    IF err \in {"timeout", "read_timeout"} THEN "timeout"
    ELSE IF err \in {"other", "oserror"} THEN "other"
    ELSE IF err = "cancelled" THEN "none"
    ELSE "http"

RECURSIVE FileLen(_)
FileLen(f) == IF f = <<>> THEN 0 ELSE f[Len(f)][2] + FileLen(SubSeq(f, 1, Len(f) - 1))

\* f.write(chunk) of the n resource bytes from offset start, at the end of the file
WriteBytes(f, start, n) ==
    IF n = 0 THEN f
    ELSE IF f # <<>> /\ f[Len(f)][1] + f[Len(f)][2] = start
         THEN [f EXCEPT ![Len(f)] = <<f[Len(f)][1], f[Len(f)][2] + n>>]
         ELSE Append(f, <<start, n>>)

\* A file that is opened for writing afresh on every attempt.
OpenModeAlwaysWrite(d) == "wb"

\* mode = "ab" if downloaded > 0 else "wb"
OpenMode(d) == IF d > 0 THEN "ab" ELSE "wb"

\* open(temp_path, mode)
OpenFile(f, mode) == IF mode = "wb" THEN <<>> ELSE f

\* f is a prefix of g, byte for byte
IsPrefix(f, g) ==
    \/ f = <<>>
    \/ /\ Len(f) <= Len(g)
       /\ \A i \in 1..(Len(f) - 1) : g[i] = f[i]
       /\ g[Len(f)][1] = f[Len(f)][1]
       /\ IF Len(f) = Len(g) THEN g[Len(f)][2] >= f[Len(f)][2]
                             ELSE g[Len(f)][2] = f[Len(f)][2]

\* ------------------------------------------------------------------- Init

\* No handler of the bot is at work.
LeechIdle ==
    /\ running = FALSE
    /\ updater_task = "none"
    /\ temp_path = "none"
    /\ upload_success = "none"
    /\ thumb = FALSE

\* No call of resolve() and none of increment_user_leech_count is under way.
ServicesIdle ==
    /\ lock = <<>>
    /\ client = <<>>
    /\ resolving = <<>>
    /\ users_col = <<>>
    /\ counting = <<>>

OthersIdle == LeechIdle /\ ServicesIdle

\* fetch_to_temp is entered: mkstemp has made the file, the counters are 0.
CallInit ==
    /\ \E in \in Inputs : size = in[1] /\ max_retries = in[2]
    /\ hint \in {0, size}
    /\ meta_size = hint
    /\ pc = "loop"
    /\ downloaded = 0
    /\ retry_count = 0
    /\ consecutive_failures = 0
    /\ chunk_size = 0
    /\ range_from = 0
    /\ last_error = ""
    /\ expected_total = 0
    /\ bytes_in_chunk = 0
    /\ body_pos = 0
    /\ file_exists = TRUE
    /\ file = <<>>
    /\ partial = <<>>
    /\ wait_time = 0
    /\ range_ignored = 0
    /\ result = "running"
    /\ on_progress \in (IF size = SmallSize THEN Callbacks ELSE {"flaky"})
    /\ progress_calls = 0
    /\ reported = 0
    /\ requests = 0

Init ==
    /\ CallInit
    /\ calls = <<>>
    /\ disk = <<>>
    /\ handler = <<>>
    /\ OthersIdle

\* ---------------------------------------------------------------- actions

\* The locals of one round of the loop (headers, expected_total,
\* bytes_in_chunk, the response) are dead once the round is over.
EndOfRound ==
    /\ range_from' = 0
    /\ partial' = <<>>
    /\ expected_total' = 0
    /\ bytes_in_chunk' = 0
    /\ body_pos' = 0
    /\ progress_calls' = 0

\* Except clauses that sleep and continue without counting the failure.
HandleNoCount(err, cf) ==
    /\ retry_count' = retry_count
    /\ consecutive_failures' = cf + 1
    /\ last_error' = err
    /\ wait_time' = BackoffDelay(ExceptClause(err), retry_count + 1)
    /\ pc' = "sleep"
    /\ EndOfRound

\* The except clauses: count the failure, then sleep and continue, or fall
\* out of the loop when the budget is used up.  cf is consecutive_failures
\* as the raise left it.
Handle(err, cf) ==
    /\ retry_count' = retry_count + 1
    /\ consecutive_failures' = cf + 1
    /\ last_error' = err
    /\ IF retry_count + 1 < max_retries
         THEN /\ wait_time' = BackoffDelay(ExceptClause(err), retry_count + 1)
              /\ pc' = "sleep"
         ELSE /\ wait_time' = 0
              /\ pc' = "loop"
    /\ EndOfRound

\* An exception no clause catches leaves fetch_to_temp as it is.
Escape(err) ==
    /\ pc' = IF err = "cancelled" THEN "cancelled" ELSE "raised"
    /\ result' = err
    /\ wait_time' = 0
    /\ EndOfRound
    /\ UNCHANGED <<retry_count, consecutive_failures, last_error>>

\* An exception is raised inside the try.  cf is consecutive_failures as the
\* raise left it.
Raise(err, cf) ==
    IF ExceptClause(err) = "none"
      THEN Escape(err)
      ELSE Handle(err, cf) /\ UNCHANGED result

\* A loop that runs once more after the budget is used up.
LoopConditionOffByOne(rc, mr) == rc <= mr

\* while retry_count < max_retries
LoopCondition(rc, mr) == rc < mr

\* A request that never carries a Range header.
RangeHeaderNone(done) == 0

\* if downloaded > 0: headers["Range"] = f"bytes={downloaded}-"; the offset
\* the header names, 0 for no header
RangeHeader(done) == IF done > 0 THEN done ELSE 0

\* One round of the loop begins: chunk size, Range header, client.stream("GET")
SendRequest ==
    /\ pc = "loop"
    /\ LoopCondition(retry_count, max_retries)
    /\ chunk_size' = calculate_optimal_chunk_size(meta_size, retry_count + 1)
    /\ range_from' = RangeHeader(downloaded)
    /\ partial' = file
    /\ last_error' = ""
    /\ pc' = "request"
    /\ UNCHANGED <<others, calls, disk, handler, size, hint, on_progress, meta_size, max_retries, downloaded,
                   retry_count, consecutive_failures, expected_total,
                   bytes_in_chunk, body_pos, file_exists, file, wait_time,
                   range_ignored, result, progress_calls, reported>>

StartAttempt ==
    /\ SendRequest
    /\ UNCHANGED requests

\* await asyncio.sleep(wait_time); continue
BackoffSleep ==
    /\ pc = "sleep"
    /\ wait_time' = 0
    /\ pc' = "loop"
    /\ UNCHANGED <<others, requests, calls, disk, handler, size, hint, on_progress, meta_size, max_retries, downloaded,
                   retry_count, consecutive_failures, chunk_size, range_from,
                   last_error, expected_total, bytes_in_chunk, body_pos,
                   file_exists, file, partial, range_ignored, result,
                   progress_calls, reported>>

\* The task is cancelled during asyncio.sleep: the CancelledError is raised
\* inside the except clause and leaves fetch_to_temp.
SleepCancelled ==
    /\ pc = "sleep"
    /\ Escape("cancelled")
    /\ UNCHANGED <<others, requests, calls, disk, handler, size, hint, on_progress, meta_size, max_retries, downloaded,
                   chunk_size, file_exists, file, range_ignored, reported>>

\* The request raises before any response arrives.
RequestFails(err) ==
    /\ pc = "request"
    /\ Raise(err, consecutive_failures)
    /\ UNCHANGED <<others, requests, calls, disk, handler, size, hint, on_progress, meta_size, max_retries, downloaded,
                   chunk_size, file_exists, file, range_ignored, reported>>

\* status 400, 404 or 403: raise DownloadError inside the try
FatalError(status) ==
    IF status = 400 THEN "expired"
    ELSE IF status = 404 THEN "not_found"
    ELSE "denied"

RespondFatal(status) ==
    /\ pc = "request"
    /\ Raise(FatalError(status), consecutive_failures)
    /\ UNCHANGED <<others, requests, calls, disk, handler, size, hint, on_progress, meta_size, max_retries, downloaded,
                   chunk_size, file_exists, file, range_ignored, reported>>

\* any other status outside 200/206
TooManyFailuresAtFour(cf) == cf >= 4

TooManyFailures(cf) == cf >= 3

RespondUnexpected(status) ==
    /\ pc = "request"
    /\ IF TooManyFailures(consecutive_failures + 1)
         THEN Raise("status", consecutive_failures + 1)
         ELSE /\ consecutive_failures' = consecutive_failures + 1
              /\ last_error' = "unexpected"
              /\ pc' = "loop"
              /\ EndOfRound
              /\ UNCHANGED <<retry_count, wait_time, result>>
    /\ UNCHANGED <<others, requests, calls, disk, handler, size, hint, on_progress, meta_size, max_retries, downloaded,
                   chunk_size, file_exists, file, range_ignored, reported>>

\* An expected total that prefers meta.size to the header.
ExpectedTotalHintFirst(has_cl, content_length, done, msize) ==
    IF msize # 0 THEN msize
    ELSE IF has_cl THEN done + content_length ELSE 0

\* expected_total: downloaded + int(content_length) when the header is there,
\* meta.size or 0 when it is not
ExpectedTotal(has_cl, content_length, done, msize) ==
    IF has_cl THEN done + content_length ELSE msize

\* if downloaded == 0 and not meta.size: meta.size = total_size
MetaSizeAfter(has_cl, content_length, done, msize) ==
    IF has_cl /\ done = 0 /\ msize = 0 THEN content_length ELSE msize

\* status 200 or 206: the Content-Length bookkeeping and open(temp_path, mode).
\* A 206 continues at the requested offset; a 200 carries the whole resource.
RespondOK(status, has_cl) ==
    /\ pc = "request"
    /\ \/ status = 206 /\ range_from > 0 /\ range_from < size
       \/ status = 200 /\ range_from = 0
       \/ status = 200 /\ range_from > 0 /\ range_ignored < MaxRangeIgnored
    /\ LET start == IF status = 206 THEN range_from ELSE 0
           content_length == IF has_cl THEN size - start ELSE 0
       IN  /\ body_pos' = start
           /\ meta_size' = MetaSizeAfter(has_cl, content_length, downloaded, meta_size)
           /\ expected_total' = ExpectedTotal(has_cl, content_length,
                                              downloaded, meta_size)
    /\ range_ignored' = IF status = 200 /\ range_from > 0
                        THEN range_ignored + 1 ELSE range_ignored
    /\ consecutive_failures' = 0
    /\ bytes_in_chunk' = 0
    /\ progress_calls' = 0
    /\ file' = OpenFile(file, OpenMode(downloaded))
    /\ pc' = "stream"
    /\ UNCHANGED <<others, requests, calls, disk, handler, size, hint, on_progress, max_retries, downloaded, retry_count,
                   chunk_size, range_from, last_error, file_exists, partial,
                   wait_time, result, reported>>

\* A read that takes the rest of the body in one piece.
ChunkLenWholeBody(cs, remaining) == remaining

\* response.aiter_bytes(chunk_size): the next chunk has chunk_size bytes, or
\* what remains of the body when that is less
ChunkLen(cs, remaining) == Min(cs, remaining)

\* A counter that is assigned the chunk's length instead of growing by it.
AddBytesAssign(done, n) == n

\* downloaded += len(chunk)
AddBytes(done, n) == done + n

\* A test that lets the callback through once per MiB boundary reached.
ProgressDuePerMiB(done, n) == done \div (1024 * 1024) > (done - n) \div (1024 * 1024)

\* (downloaded - (downloaded % (1024 * 1024))) % (1024 * 1024) == 0, with
\* downloaded already grown by the n bytes of the chunk
ProgressDue(done, n) == (done - (done % (1024 * 1024))) % (1024 * 1024) = 0

\* Whether this invocation of the callback raises an Exception: a raising
\* callback does at every invocation, a flaky one at the invocations chosen.
CallbackRaises(cb, choice) == cb = "raising" \/ (cb = "flaky" /\ choice)

\* A callback whose exception is not caught around the call.
CallbackErrorPropagates == FALSE

\* try: on_progress(downloaded, expected_total) except Exception: the
\* exception of the callback is logged or passed over
CallbackErrorCaught == TRUE

\* What one chunk does to the transfer when cb is the callback passed and
\* choice what a flaky callback does at this invocation.
\* async for chunk in response.aiter_bytes(chunk_size): f.write(chunk)
WriteChunkEngine(cb, choice) ==
    /\ pc = "stream"
    /\ body_pos < size
    /\ LET n == ChunkLen(chunk_size, size - body_pos)
           done == AddBytes(downloaded, n)
       IN  /\ file' = WriteBytes(file, body_pos, n)
           /\ downloaded' = done
           /\ IF /\ cb # "none"
                 /\ ProgressDue(done, n)
                 /\ CallbackRaises(cb, choice)
                 /\ ~CallbackErrorCaught
                THEN Raise("other", consecutive_failures)
                ELSE /\ bytes_in_chunk' = AddBytes(bytes_in_chunk, n)
                     /\ body_pos' = body_pos + n
                     /\ UNCHANGED <<pc, retry_count, consecutive_failures,
                                    range_from, last_error, expected_total,
                                    partial, wait_time, result>>
    /\ UNCHANGED <<others, requests, calls, disk, handler, size, hint, on_progress, meta_size, max_retries, chunk_size,
                   file_exists, range_ignored>>

\* The invocations of the callback the chunk brings.
WriteChunk(choice) ==
    /\ WriteChunkEngine(on_progress, choice)
    /\ LET invoked == on_progress # "none" /\ ProgressDue(downloaded', downloaded' - downloaded)
       IN  /\ reported' = IF invoked THEN downloaded' ELSE reported
           /\ progress_calls' = IF pc' # "stream" THEN 0
                                ELSE IF invoked THEN progress_calls + 1
                                ELSE progress_calls

\* An exception interrupts the attempt while the body is streamed: a timeout,
\* a transport error, an OSError of open() or f.write(), a cancellation.
StreamFails(err) ==
    /\ pc = "stream"
    /\ Raise(err, consecutive_failures)
    /\ UNCHANGED <<others, requests, calls, disk, handler, size, hint, on_progress, meta_size, max_retries, downloaded,
                   chunk_size, file_exists, file, range_ignored, reported>>

\* A completion test that accepts any attempt that wrote bytes.
CompleteAnyBytes(exp, done, in_attempt) == in_attempt > 0

\* The completion test after the stream ended without an exception.
Complete(exp, done, in_attempt) ==
    \/ exp # 0 /\ done >= exp
    \/ exp = 0 /\ in_attempt > 0

\* The stream ends without an exception (the body is over, or the server
\* closed early): the final progress update, then break, or raise
\* DownloadError("Incomplete download").
StreamEndEngine(cb, choice) ==
    /\ pc = "stream"
    /\ IF cb # "none" /\ CallbackRaises(cb, choice) /\ ~CallbackErrorCaught
         THEN Raise("other", consecutive_failures)
         ELSE IF Complete(expected_total, downloaded, bytes_in_chunk)
         THEN /\ pc' = "finish"
              /\ UNCHANGED <<retry_count, consecutive_failures, last_error,
                             wait_time, range_from, partial, expected_total,
                             bytes_in_chunk, body_pos, result>>
         ELSE Raise("incomplete", consecutive_failures)
    /\ UNCHANGED <<others, requests, calls, disk, handler, size, hint, on_progress, meta_size, max_retries, downloaded,
                   chunk_size, file_exists, file, range_ignored>>

StreamEnd(choice) ==
    /\ StreamEndEngine(on_progress, choice)
    /\ reported' = IF on_progress # "none" THEN downloaded ELSE reported
    /\ progress_calls' = IF pc' # "finish" THEN 0
                         ELSE IF on_progress # "none" THEN progress_calls + 1
                         ELSE progress_calls

\* An exhaustion that leaves the temp file where it is.
KeepOnExhaustion(exists) == exists

\* if os.path.exists(temp_path): os.remove(temp_path)
RemoveOnExhaustion(exists) == FALSE

\* if retry_count >= max_retries: os.remove(temp_path); raise DownloadError
Exhausted ==
    /\ pc = "loop"
    /\ retry_count >= max_retries
    /\ file_exists' = RemoveOnExhaustion(file_exists)
    /\ file' = IF file_exists' THEN file ELSE <<>>
    /\ result' = IF consecutive_failures >= 5 THEN "unstable" ELSE "exhausted"
    /\ pc' = "raised"
    /\ UNCHANGED <<others, requests, calls, disk, handler, size, hint, on_progress, meta_size, max_retries, downloaded,
                   retry_count, consecutive_failures, chunk_size, range_from,
                   last_error, expected_total, bytes_in_chunk, body_pos,
                   partial, wait_time, range_ignored, progress_calls, reported>>

\* A return that leaves meta.size as it is.
ConfirmedSizeKeepsMeta(f, msize) == msize

\* file_size = os.path.getsize(temp_path); meta.size = file_size
ConfirmedSize(f, msize) == FileLen(f)

\* After break: the test of the budget, the checks of the file,
\* meta.size = file_size, return.
Finish ==
    /\ pc = "finish"
    /\ IF retry_count >= max_retries
         THEN /\ file_exists' = RemoveOnExhaustion(file_exists)
              /\ file' = IF file_exists' THEN file ELSE <<>>
              /\ result' = IF consecutive_failures >= 5 THEN "unstable"
                           ELSE "exhausted"
              /\ pc' = "raised"
              /\ UNCHANGED meta_size
         ELSE IF ~file_exists
         THEN /\ result' = "missing"
              /\ pc' = "raised"
              /\ UNCHANGED <<file_exists, file, meta_size>>
         ELSE IF FileLen(file) = 0
         THEN /\ file_exists' = FALSE
              /\ file' = <<>>
              /\ result' = "empty"
              /\ pc' = "raised"
              /\ UNCHANGED meta_size
         ELSE /\ meta_size' = ConfirmedSize(file, meta_size)
              /\ result' = "ok"
              /\ pc' = "returned"
              /\ UNCHANGED <<file_exists, file>>
    /\ UNCHANGED <<others, requests, calls, disk, handler, size, hint, on_progress, max_retries, downloaded, retry_count,
                   consecutive_failures, chunk_size, range_from, last_error,
                   expected_total, bytes_in_chunk, body_pos, partial, wait_time,
                   range_ignored, progress_calls, reported>>

Next ==
    \/ StartAttempt
    \/ BackoffSleep
    \/ SleepCancelled
    \/ \E err \in {"timeout", "http", "other", "cancelled"} : RequestFails(err)
    \/ \E status \in FatalStatuses : RespondFatal(status)
    \/ \E status \in OtherStatuses : RespondUnexpected(status)
    \/ \E status \in {200, 206}, has_cl \in BOOLEAN : RespondOK(status, has_cl)
    \/ \E choice \in BOOLEAN : WriteChunk(choice)
    \/ \E err \in {"timeout", "http", "oserror", "cancelled"} : StreamFails(err)
    \/ \E choice \in BOOLEAN : StreamEnd(choice)
    \/ Exhausted
    \/ Finish

Spec == Init /\ [][Next]_vars

\* The calls on the small resource (max_retries 1 and the default), explored
\* under the assumption the claims of termination make: every request, every
\* read and every sleep comes to an end.
FairInit == Init /\ size = SmallSize

FairSpec == FairInit /\ [][Next]_vars /\ WF_vars(Next)

\* ------------------------------------------------------- a stalled stream

\* A client without a read timeout.
ReadTimeoutNone == FALSE

\* httpx.Timeout(timeout=90.0, connect=20.0, read=45.0, ...): reads of the
\* response are under a timeout
ReadTimeoutSet == TRUE

\* The connection stays open and no byte of the rest of the body arrives.
Stall ==
    /\ pc = "stream"
    /\ body_pos < size
    /\ pc' = "stalled"
    /\ UNCHANGED <<others, requests, calls, disk, handler, size, hint, on_progress, meta_size,
                   max_retries, downloaded, retry_count, consecutive_failures,
                   chunk_size, range_from, last_error, expected_total,
                   bytes_in_chunk, body_pos, file_exists, file, partial,
                   wait_time, range_ignored, result, progress_calls, reported>>

\* The read timeout runs out: aiter_bytes raises httpx.ReadTimeout.
StallTimeout ==
    /\ pc = "stalled"
    /\ ReadTimeoutSet
    /\ Raise("read_timeout", consecutive_failures)
    /\ UNCHANGED <<others, requests, calls, disk, handler, size, hint, on_progress, meta_size,
                   max_retries, downloaded, chunk_size, file_exists, file,
                   range_ignored, reported>>

\* The call with streams that stall.  What a stalled stream leads to, the
\* timeout, is a step StreamFails takes from the same state, so Spec has the
\* outcomes of every stall; here the stall is a state of its own.  The
\* steps of the call are taken sooner or later; a cancellation of a stalled
\* stream is the cancellation of the stream.
StallInit == Init /\ size = SmallSize /\ on_progress = "none"

StallNext == Next \/ Stall \/ StallTimeout

StallSpec == StallInit /\ [][StallNext]_vars /\ WF_vars(StallNext)

\* ------------------------------------------------ the requests of one call
\* client.stream("GET", meta.url, headers=headers): the request of a round,
\* counted.
CountRequest ==
    /\ SendRequest
    /\ requests' = requests + 1

RequestInit == Init /\ size = SmallSize /\ on_progress = "none"

\* The steps of Next, with the requests counted.
RequestNext ==
    \/ CountRequest
    \/ BackoffSleep
    \/ SleepCancelled
    \/ \E err \in {"timeout", "http", "other", "cancelled"} : RequestFails(err)
    \/ \E status \in FatalStatuses : RespondFatal(status)
    \/ \E status \in OtherStatuses : RespondUnexpected(status)
    \/ \E status \in {200, 206}, has_cl \in BOOLEAN : RespondOK(status, has_cl)
    \/ \E choice \in BOOLEAN : WriteChunk(choice)
    \/ \E err \in {"timeout", "http", "oserror", "cancelled"} : StreamFails(err)
    \/ \E choice \in BOOLEAN : StreamEnd(choice)
    \/ Exhausted
    \/ Finish

RequestSpec == RequestInit /\ [][RequestNext]_vars

\* calculate_optimal_chunk_size on its own: the sizes on either side of its
\* thresholds (0 stands for an unknown size), the attempts 1..MaxAttempt.
MaxAttempt == 12

ChunkFileSizes ==
    {0, 1, SmallSize, 5 * 1024 * 1024 - 1, 5 * 1024 * 1024, MediumSize,
     50 * 1024 * 1024 - 1, 50 * 1024 * 1024, 50 * 1024 * 1024 + 1}

ChunkInit ==
    /\ size \in ChunkFileSizes
    /\ hint = size
    /\ meta_size = size
    /\ max_retries = MaxAttempt
    /\ retry_count \in 0 .. (MaxAttempt - 1)
    /\ pc = "chunk_call"
    /\ downloaded = 0
    /\ consecutive_failures = 0
    /\ chunk_size = 0
    /\ range_from = 0
    /\ last_error = ""
    /\ expected_total = 0
    /\ bytes_in_chunk = 0
    /\ body_pos = 0
    /\ file_exists = TRUE
    /\ file = <<>>
    /\ partial = <<>>
    /\ wait_time = 0
    /\ range_ignored = 0
    /\ result = "running"
    /\ on_progress = "none"
    /\ progress_calls = 0
    /\ reported = 0
    /\ requests = 0
    /\ OthersIdle
    /\ calls = <<>>
    /\ disk = <<>>
    /\ handler = <<>>

\* chunk_size = calculate_optimal_chunk_size(meta.size, retry_count + 1)
ApplyChunkSize ==
    /\ pc = "chunk_call"
    /\ chunk_size' = calculate_optimal_chunk_size(meta_size, retry_count + 1)
    /\ pc' = "chunk_done"
    /\ UNCHANGED <<others, requests, calls, disk, handler, size, hint, on_progress, meta_size, max_retries, downloaded,
                   retry_count, consecutive_failures, range_from, last_error,
                   expected_total, bytes_in_chunk, body_pos, file_exists, file,
                   partial, wait_time, range_ignored, result, progress_calls,
                   reported>>

ChunkNext == ApplyChunkSize

ChunkSpec == ChunkInit /\ [][ChunkNext]_vars

\* ------------------------------------------- the succession of backoffs

\* The counted failures of one call, one after the other, for budgets
\* 2..MaxAttempt: between two of them retry_count does not change, so what
\* is slept after each is a function of its class and of their number.
\* wait_time is here the delay slept after the latest counted failure.
BackoffInit ==
    /\ max_retries \in 2 .. MaxAttempt
    /\ pc = "backoff"
    /\ retry_count = 0
    /\ wait_time = 0
    /\ last_error = ""
    /\ calls = <<>>
    /\ disk = <<>>
    /\ handler = <<>>
    /\ size = SmallSize
    /\ hint = size
    /\ meta_size = size
    /\ downloaded = 0
    /\ consecutive_failures = 0
    /\ chunk_size = 0
    /\ range_from = 0
    /\ expected_total = 0
    /\ bytes_in_chunk = 0
    /\ body_pos = 0
    /\ file_exists = TRUE
    /\ file = <<>>
    /\ partial = <<>>
    /\ range_ignored = 0
    /\ result = "running"
    /\ on_progress = "none"
    /\ progress_calls = 0
    /\ reported = 0
    /\ requests = 0
    /\ OthersIdle

\* One of the except clauses: retry_count += 1; if retry_count < max_retries:
\* wait_time = ...; await asyncio.sleep(wait_time)
BackoffFailure(err) ==
    /\ pc = "backoff"
    /\ retry_count + 1 < max_retries
    /\ retry_count' = retry_count + 1
    /\ consecutive_failures' = consecutive_failures + 1
    /\ last_error' = err
    /\ wait_time' = BackoffDelay(ExceptClause(err), retry_count + 1)
    /\ UNCHANGED <<others, requests, calls, disk, handler, size, hint, on_progress, meta_size,
                   max_retries, pc, downloaded, chunk_size, range_from,
                   expected_total, bytes_in_chunk, body_pos, file_exists, file,
                   partial, range_ignored, result, progress_calls, reported>>

BackoffNext == \E err \in {"timeout", "http", "oserror"} : BackoffFailure(err)

BackoffSpec == BackoffInit /\ [][BackoffNext]_vars

\* ------------------------------------------------- two concurrent calls

\* Two fetch_to_temp coroutines on one event loop, each on its own FileMeta.
\* Every local of fetch_to_temp lives in the coroutine's frame; what the two
\* share is the directory of temp files.  A step is what one coroutine does
\* between two awaits.
Calls == {1, 2}

\* Names tempfile.mkstemp(prefix="terabox_", suffix="_" + meta.name) may
\* come up with.
Paths == {"terabox_p", "terabox_q", "terabox_r"}

\* Budget and body of each of the two calls.
PairRetries == 2
PairSize == 3 * 65536

\* A mkstemp that does not look whether the name is taken.
MkstempNamesAny(d) == Paths

\* mkstemp creates the file with O_EXCL: a name that is not on disk
MkstempNames(d) == {p \in Paths : d[p] = -1}

PairInit ==
    /\ calls = [c \in Calls |->
                  [pc |-> "start", temp_path |-> "", downloaded |-> 0,
                   retry_count |-> 0, consecutive_failures |-> 0]]
    /\ disk = [p \in Paths |-> -1]
    /\ handler = <<>>
    /\ size = PairSize
    /\ hint = 0
    /\ meta_size = 0
    /\ max_retries = PairRetries
    /\ pc = "pair"
    /\ downloaded = 0
    /\ retry_count = 0
    /\ consecutive_failures = 0
    /\ chunk_size = calculate_optimal_chunk_size(PairSize, 1)
    /\ range_from = 0
    /\ last_error = ""
    /\ expected_total = 0
    /\ bytes_in_chunk = 0
    /\ body_pos = 0
    /\ file_exists = TRUE
    /\ file = <<>>
    /\ partial = <<>>
    /\ wait_time = 0
    /\ range_ignored = 0
    /\ result = "running"
    /\ on_progress = "none"
    /\ progress_calls = 0
    /\ reported = 0
    /\ requests = 0
    /\ OthersIdle

\* fd, temp_path = tempfile.mkstemp(...); os.close(fd)
PairMkstemp(c) ==
    /\ calls[c].pc = "start"
    /\ \E p \in MkstempNames(disk) :
          /\ calls' = [calls EXCEPT ![c].temp_path = p, ![c].pc = "loop"]
          /\ disk' = [disk EXCEPT ![p] = 0]
    /\ UNCHANGED <<locals, handler, others>>

\* while retry_count < max_retries: ... client.stream("GET", ...)
PairStartAttempt(c) ==
    /\ calls[c].pc = "loop"
    /\ LoopCondition(calls[c].retry_count, max_retries)
    /\ calls' = [calls EXCEPT ![c].pc = "request"]
    /\ UNCHANGED <<locals, disk, handler, others>>

\* status 200 or 206: consecutive_failures = 0; open(temp_path, mode)
PairRespondOK(c) ==
    /\ calls[c].pc = "request"
    /\ calls' = [calls EXCEPT ![c].pc = "stream",
                              ![c].consecutive_failures = 0]
    /\ disk' = [disk EXCEPT ![calls[c].temp_path] =
                  IF OpenMode(calls[c].downloaded) = "wb" THEN 0 ELSE Max(@, 0)]
    /\ UNCHANGED <<locals, handler, others>>

\* f.write(chunk); downloaded += len(chunk)
PairWriteChunk(c) ==
    /\ calls[c].pc = "stream"
    /\ calls[c].downloaded < size
    /\ LET n == ChunkLen(chunk_size, size - calls[c].downloaded)
       IN  /\ calls' = [calls EXCEPT ![c].downloaded = AddBytes(@, n)]
           /\ disk' = [disk EXCEPT ![calls[c].temp_path] = @ + n]
    /\ UNCHANGED <<locals, handler, others>>

\* An exception of the request or of the stream, in one of the except
\* clauses: retry_count += 1; consecutive_failures += 1; sleep or fall out.
PairFails(c) ==
    /\ calls[c].pc \in {"request", "stream"}
    /\ calls' = [calls EXCEPT
                   ![c].retry_count = @ + 1,
                   ![c].consecutive_failures = @ + 1,
                   ![c].pc = IF calls[c].retry_count + 1 < max_retries
                             THEN "sleep" ELSE "loop"]
    /\ UNCHANGED <<locals, disk, handler, others>>

\* await asyncio.sleep(wait_time); continue
PairBackoffSleep(c) ==
    /\ calls[c].pc = "sleep"
    /\ calls' = [calls EXCEPT ![c].pc = "loop"]
    /\ UNCHANGED <<locals, disk, handler, others>>

\* The body is over: break, the checks of the file, return.
PairStreamEnd(c) ==
    /\ calls[c].pc = "stream"
    /\ calls[c].downloaded >= size
    /\ calls' = [calls EXCEPT ![c].pc = "returned"]
    /\ UNCHANGED <<locals, disk, handler, others>>

\* if retry_count >= max_retries: os.remove(temp_path); raise DownloadError
PairExhausted(c) ==
    /\ calls[c].pc = "loop"
    /\ calls[c].retry_count >= max_retries
    /\ calls' = [calls EXCEPT ![c].pc = "raised"]
    /\ disk' = [disk EXCEPT ![calls[c].temp_path] =
                  IF RemoveOnExhaustion(@ # -1) THEN @ ELSE -1]
    /\ UNCHANGED <<locals, handler, others>>

PairNext ==
    \E c \in Calls :
        \/ PairMkstemp(c)
        \/ PairStartAttempt(c)
        \/ PairRespondOK(c)
        \/ PairWriteChunk(c)
        \/ PairFails(c)
        \/ PairBackoffSleep(c)
        \/ PairStreamEnd(c)
        \/ PairExhausted(c)

PairSpec == PairInit /\ [][PairNext]_vars

\* ------------------------------------------------------ the leech handlers

\* leech (2).py: MIN_MEMORY_MB = 150
MIN_MEMORY_MB == 150

\* leech (2).py: MAX_FILE_SIZE = 120 * 1024 * 1024
MAX_FILE_SIZE == 120 * 1024 * 1024

\* leech.py: check_file_size_limit(file_size, max_size = 80 * 1024 * 1024)
DefaultMaxSize == 80 * 1024 * 1024

\* A test that turns away the size that equals the limit as well.
check_file_size_limit_Inclusive(file_size, max_size) ==
    IF file_size >= max_size THEN "too_large" ELSE "ok"

\* leech.py, check_file_size_limit: the verdict, "ok" for (True, "")
check_file_size_limit(file_size, max_size) ==
    IF file_size > max_size THEN "too_large" ELSE "ok"

\* leech (2).py, check_streaming_file_limits: the memory test, then the size
check_streaming_file_limits(file_size, available_mb) ==
    IF available_mb < MIN_MEMORY_MB THEN "low_memory"
    ELSE IF file_size > MAX_FILE_SIZE THEN "too_large"
    ELSE "ok"

\* The limit each handler enforces.
HandlerLimit(name) == IF name = "leech" THEN DefaultMaxSize ELSE MAX_FILE_SIZE

\* meta.size as the resolver gave it (0: unknown), on either side of the
\* two limits, and the memory available, in MB.
HandlerSizes ==
    {0, 1, SmallSize, DefaultMaxSize - 1, DefaultMaxSize, DefaultMaxSize + 1,
     MAX_FILE_SIZE - 1, MAX_FILE_SIZE, MAX_FILE_SIZE + 1}

HandlerMemory == {MIN_MEMORY_MB - 1, MIN_MEMORY_MB, 400}

HandlerInit ==
    /\ handler \in [name : {"leech", "leech2"}, available_mb : HandlerMemory]
    /\ size \in HandlerSizes
    /\ hint = size
    /\ meta_size = size
    /\ pc = "handler_check"
    /\ calls = <<>>
    /\ disk = <<>>
    /\ max_retries = DefaultMaxRetries
    /\ downloaded = 0
    /\ retry_count = 0
    /\ consecutive_failures = 0
    /\ chunk_size = 0
    /\ range_from = 0
    /\ last_error = ""
    /\ expected_total = 0
    /\ bytes_in_chunk = 0
    /\ body_pos = 0
    /\ file_exists = FALSE
    /\ file = <<>>
    /\ partial = <<>>
    /\ wait_time = 0
    /\ range_ignored = 0
    /\ result = "running"
    /\ on_progress = "flaky"
    /\ progress_calls = 0
    /\ reported = 0
    /\ requests = 0
    /\ OthersIdle

\* total = meta.size; if total: the check of the handler; if not size_ok:
\* edit the status message and return
HandlerCheckSize ==
    /\ pc = "handler_check"
    /\ LET verdict ==
             IF meta_size = 0 THEN "ok"
             ELSE IF handler.name = "leech"
               THEN check_file_size_limit(meta_size, DefaultMaxSize)
               ELSE check_streaming_file_limits(meta_size, handler.available_mb)
       IN  /\ result' = IF verdict = "ok" THEN result ELSE verdict
           /\ pc' = IF verdict = "ok" THEN "handler_accepted"
                    ELSE "handler_rejected"
    /\ UNCHANGED <<others, requests, calls, disk, handler, size, hint, on_progress, meta_size,
                   max_retries, downloaded, retry_count, consecutive_failures,
                   chunk_size, range_from, last_error, expected_total,
                   bytes_in_chunk, body_pos, file_exists, file, partial,
                   wait_time, range_ignored, progress_calls, reported>>

\* temp_path, meta = await fetch_to_temp(meta, on_progress=...)
HandlerCallsFetch ==
    /\ pc = "handler_accepted"
    /\ pc' = "handler_fetch"
    /\ UNCHANGED <<others, requests, calls, disk, handler, size, hint, on_progress, meta_size,
                   max_retries, downloaded, retry_count, consecutive_failures,
                   chunk_size, range_from, last_error, expected_total,
                   bytes_in_chunk, body_pos, file_exists, file, partial,
                   wait_time, range_ignored, result, progress_calls, reported>>

HandlerNext == HandlerCheckSize \/ HandlerCallsFetch

HandlerSpec == HandlerInit /\ [][HandlerNext]_vars

\* ------------------------------------- leech_handler_v2 and progress_loop
\* What the steps of the handler leave alone.
LeechFrame ==
    <<size, hint, meta_size, max_retries, downloaded, retry_count,
      consecutive_failures, chunk_size, range_from, last_error,
      expected_total, bytes_in_chunk, body_pos, partial, wait_time,
      range_ignored, on_progress, progress_calls, reported, requests, calls,
      disk, handler, services>>

\* A get_memory_info that hands control to the event loop before it returns.
GetMemoryInfoYieldsAlways == TRUE

\* MemoryManager.get_memory_info has no await in its body: awaiting it does
\* not suspend the caller
GetMemoryInfoYields == FALSE

\* finally: if temp_path and os.path.exists(temp_path): os.remove(temp_path)
RemoveTempFile(path, exists) == IF path = "set" THEN FALSE ELSE exists

\* _make_video_thumb: mkstemp makes the file, then ffmpeg writes it and the
\* path is returned, or ffmpeg fails and None is returned
MakeVideoThumb(ffmpeg_ok) ==
    [path |-> IF ffmpeg_ok THEN "set" ELSE "none", on_disk |-> TRUE]

\* _send_media_optimized, finally: if thumb and os.path.exists(thumb):
\* os.remove(thumb).  TRUE: the file is still on disk.
RemoveThumb(t) == IF t.path # "none" THEN FALSE ELSE t.on_disk

\* The handler has created the task of progress_loop and set temp_path to
\* None: running is True, nothing is downloaded.
LeechInit ==
    /\ handler = [name |-> "leech", available_mb |-> 400]
    /\ size = SmallSize
    /\ hint \in {0, size}
    /\ meta_size = hint
    /\ max_retries = DefaultMaxRetries
    /\ pc = "handler_try"
    /\ calls = <<>>
    /\ disk = <<>>
    /\ downloaded = 0
    /\ retry_count = 0
    /\ consecutive_failures = 0
    /\ chunk_size = 0
    /\ range_from = 0
    /\ last_error = ""
    /\ expected_total = 0
    /\ bytes_in_chunk = 0
    /\ body_pos = 0
    /\ file_exists = FALSE
    /\ file = <<>>
    /\ partial = <<>>
    /\ wait_time = 0
    /\ range_ignored = 0
    /\ result = "running"
    /\ on_progress = "flaky"
    /\ progress_calls = 0
    /\ reported = 0
    /\ requests = 0
    /\ running = TRUE
    /\ updater_task = "created"
    /\ temp_path = "none"
    /\ upload_success = "none"
    /\ thumb = FALSE
    /\ ServicesIdle

\* progress_loop runs from the head of its loop (when the task is first
\* scheduled, or asyncio.sleep(3) is over): while running, the text, then
\* await context.bot.edit_message_text(...); the loop is over when running
\* is False.
ProgressLoopRuns ==
    /\ updater_task \in {"created", "sleeping"}
    /\ updater_task' = IF ~running THEN "done"
                        ELSE IF GetMemoryInfoYields THEN "memory"
                        ELSE "editing"
    /\ UNCHANGED <<locals, calls, disk, handler, services, running, temp_path,
                   upload_success, thumb>>

\* progress_loop goes on after an await of the loop body: the edit is sent,
\* or the edit is over (done or failed) and the task sleeps 3 seconds.
ProgressLoopResumes ==
    /\ updater_task \in {"memory", "editing"}
    /\ updater_task' = IF updater_task = "memory" THEN "editing" ELSE "sleeping"
    /\ UNCHANGED <<locals, calls, disk, handler, services, running, temp_path,
                   upload_success, thumb>>

\* CancelledError is thrown into the task at the await it stands at (or
\* before its first step); except Exception does not catch it.
ProgressLoopCancelled ==
    /\ updater_task = "cancelling"
    /\ updater_task' = "cancelled"
    /\ UNCHANGED <<locals, calls, disk, handler, services, running, temp_path,
                   upload_success, thumb>>

\* try: await status.edit_text("Starting download..."), then fetch_to_temp
\* is entered (mkstemp makes the file); an edit that fails is caught by
\* except Exception.
HandlerTry(edit_ok) ==
    /\ pc = "handler_try"
    /\ pc' = IF edit_ok THEN "loop" ELSE "handler_except"
    /\ file_exists' = edit_ok
    /\ UNCHANGED <<LeechFrame, others, file, result>>

\* temp_path, meta = await fetch_to_temp(...); running = False;
\* await asyncio.sleep(0)
HandlerFetchReturned ==
    /\ pc = "returned"
    /\ temp_path' = "set"
    /\ running' = FALSE
    /\ pc' = "handler_verify"
    /\ UNCHANGED <<LeechFrame, file_exists, file, result, updater_task,
                   upload_success, thumb>>

\* if not temp_path or not os.path.exists(temp_path): raise Exception(...);
\* cleanup_memory, the message of completion
HandlerVerify ==
    /\ pc = "handler_verify"
    /\ pc' = IF temp_path = "none" \/ ~file_exists THEN "handler_except"
             ELSE "handler_upload"
    /\ UNCHANGED <<LeechFrame, others, file_exists, file, result>>

\* upload_success = await _send_media_optimized(...): for a video sent as
\* a video the thumbnail is made first and removed in the finally of the
\* upload; then the message of the outcome.
HandlerUpload(video, ffmpeg_ok, sent) ==
    /\ pc = "handler_upload"
    /\ thumb' = IF video THEN RemoveThumb(MakeVideoThumb(ffmpeg_ok)) ELSE thumb
    /\ upload_success' = IF sent THEN "sent" ELSE "failed"
    /\ pc' = "handler_finally"
    /\ UNCHANGED <<LeechFrame, file_exists, file, result, running,
                   updater_task, temp_path>>

\* except Exception as e: running = False; the reply is sent
HandlerExcept ==
    /\ pc \in {"raised", "handler_except"}
    /\ running' = FALSE
    /\ pc' = "handler_finally"
    /\ UNCHANGED <<LeechFrame, file_exists, file, result, updater_task,
                   temp_path, upload_success, thumb>>

\* finally: running = False; updater_task.cancel(); await updater_task.
\* A CancelledError that left fetch_to_temp comes here past except Exception.
HandlerFinally ==
    /\ pc \in {"handler_finally", "cancelled"}
    /\ running' = FALSE
    /\ updater_task' = IF updater_task = "done" THEN "done" ELSE "cancelling"
    /\ pc' = "handler_await"
    /\ UNCHANGED <<LeechFrame, file_exists, file, result, temp_path,
                   upload_success, thumb>>

\* The task is over: the handler removes the temp file and returns (or the
\* CancelledError goes on to its caller).
HandlerCleanup ==
    /\ pc = "handler_await"
    /\ updater_task \in {"done", "cancelled"}
    /\ file_exists' = RemoveTempFile(temp_path, file_exists)
    /\ file' = IF file_exists' THEN file ELSE <<>>
    /\ pc' = IF result = "cancelled" THEN "handler_cancelled" ELSE "handler_done"
    /\ UNCHANGED <<LeechFrame, others, result>>

LeechNext ==
    \/ Next
    \/ ProgressLoopRuns
    \/ ProgressLoopResumes
    \/ ProgressLoopCancelled
    \/ \E edit_ok \in BOOLEAN : HandlerTry(edit_ok)
    \/ HandlerFetchReturned
    \/ HandlerVerify
    \/ \E video, ffmpeg_ok, sent \in BOOLEAN : HandlerUpload(video, ffmpeg_ok, sent)
    \/ HandlerExcept
    \/ HandlerFinally
    \/ HandlerCleanup

LeechSpec == LeechInit /\ [][LeechNext]_vars

\* ------------------------- bot.py: download_file_phase2 and its handler
\* response.aiter_bytes(512 * 1024)
Phase2ChunkSize == 512 * 1024

\* The lengths of the resources phase 2 downloads.
Phase2Sizes ==
    {0, 1, Phase2ChunkSize, Phase2ChunkSize + 1, 2 * Phase2ChunkSize,
     3 * Phase2ChunkSize, 4 * Phase2ChunkSize + 1}

\* What the steps of phase 2 leave alone.
Phase2Frame ==
    <<size, hint, meta_size, max_retries, retry_count, consecutive_failures,
      chunk_size, range_from, last_error, expected_total, bytes_in_chunk,
      partial, wait_time, range_ignored, on_progress, progress_calls,
      reported, requests, calls, disk, handler, running, updater_task, thumb,
      services>>

\* phase2_leech_handler has resolved the link and calls download_file_phase2.
Phase2Init ==
    /\ size \in Phase2Sizes
    /\ pc = "p2_start"
    /\ handler = <<>>
    /\ hint = 0
    /\ meta_size = 0
    /\ max_retries = 1
    /\ calls = <<>>
    /\ disk = <<>>
    /\ downloaded = 0
    /\ retry_count = 0
    /\ consecutive_failures = 0
    /\ chunk_size = 0
    /\ range_from = 0
    /\ last_error = ""
    /\ expected_total = 0
    /\ bytes_in_chunk = 0
    /\ body_pos = 0
    /\ file_exists = FALSE
    /\ file = <<>>
    /\ partial = <<>>
    /\ wait_time = 0
    /\ range_ignored = 0
    /\ result = "running"
    /\ on_progress = "none"
    /\ progress_calls = 0
    /\ reported = 0
    /\ requests = 0
    /\ OthersIdle

\* fd, temp_path = tempfile.mkstemp(prefix="tb_p2_", ...); os.close(fd)
Phase2Mkstemp ==
    /\ pc = "p2_start"
    /\ file_exists' = TRUE
    /\ pc' = "p2_request"
    /\ UNCHANGED <<Phase2Frame, file, downloaded, body_pos, result, temp_path,
                   upload_success>>

\* if response.status_code != 200: return None; else open(temp_path, "wb")
Phase2Respond(status) ==
    /\ pc = "p2_request"
    /\ IF status # 200
         THEN /\ result' = "http_error"
              /\ pc' = "p2_handler"
         ELSE /\ result' = result
              /\ pc' = "p2_stream"
    /\ UNCHANGED <<Phase2Frame, file_exists, file, downloaded, body_pos,
                   temp_path, upload_success>>

\* An exception of the request or of the stream: except Exception: return None
Phase2Fails ==
    /\ pc \in {"p2_request", "p2_stream"}
    /\ result' = "exception"
    /\ pc' = "p2_handler"
    /\ UNCHANGED <<Phase2Frame, file_exists, file, downloaded, body_pos,
                   temp_path, upload_success>>

\* f.write(chunk); downloaded += len(chunk)
Phase2WriteChunk ==
    /\ pc = "p2_stream"
    /\ body_pos < size
    /\ LET n == Min(Phase2ChunkSize, size - body_pos)
       IN  /\ file' = WriteBytes(file, body_pos, n)
           /\ downloaded' = downloaded + n
           /\ body_pos' = body_pos + n
    /\ UNCHANGED <<Phase2Frame, file_exists, result, temp_path, upload_success,
                   pc>>

\* The stream is over: if os.path.exists(temp_path) and
\* os.path.getsize(temp_path) > 0: return temp_path; else: return None
Phase2StreamEnd ==
    /\ pc = "p2_stream"
    /\ IF file_exists /\ FileLen(file) > 0
         THEN /\ result' = "path"
              /\ temp_path' = "set"
         ELSE /\ result' = "empty"
              /\ temp_path' = "none"
    /\ pc' = "p2_handler"
    /\ UNCHANGED <<Phase2Frame, file_exists, file, downloaded, body_pos,
                   upload_success>>

\* temp_path = await download_file_phase2(...); if not temp_path: the
\* message of failure; return.  Else the message of completion: an edit
\* that raises is caught by the outer except Exception of the handler.
Phase2HandlerChecks(edit_ok) ==
    /\ pc = "p2_handler"
    /\ pc' = IF temp_path = "none" \/ ~edit_ok THEN "p2_done" ELSE "p2_upload"
    /\ UNCHANGED <<Phase2Frame, file_exists, file, downloaded, body_pos,
                   result, temp_path, upload_success>>

\* send_document and status.delete(), or except Exception as upload_error:
\* await status.edit_text(...), which may raise in its turn
Phase2Upload(sent, edit_ok) ==
    /\ pc = "p2_upload"
    /\ upload_success' = IF sent THEN "sent" ELSE "failed"
    /\ pc' = IF sent \/ edit_ok THEN "p2_cleanup" ELSE "p2_done"
    /\ UNCHANGED <<Phase2Frame, file_exists, file, downloaded, body_pos,
                   result, temp_path>>

\* if temp_path and os.path.exists(temp_path): os.remove(temp_path)
Phase2Cleanup ==
    /\ pc = "p2_cleanup"
    /\ file_exists' = RemoveTempFile(temp_path, file_exists)
    /\ file' = IF file_exists' THEN file ELSE <<>>
    /\ pc' = "p2_done"
    /\ UNCHANGED <<Phase2Frame, downloaded, body_pos, result, temp_path,
                   upload_success>>

Phase2Next ==
    \/ Phase2Mkstemp
    \/ \E status \in {200, 403, 404, 503} : Phase2Respond(status)
    \/ Phase2Fails
    \/ Phase2WriteChunk
    \/ Phase2StreamEnd
    \/ \E edit_ok \in BOOLEAN : Phase2HandlerChecks(edit_ok)
    \/ \E sent, edit_ok \in BOOLEAN : Phase2Upload(sent, edit_ok)
    \/ Phase2Cleanup

Phase2Spec == Phase2Init /\ [][Phase2Next]_vars

\* --------------------------------------- terabox.py: TeraboxResolver
\* No download is under way.
NoCall ==
    /\ size = 0
    /\ hint = 0
    /\ meta_size = 0
    /\ max_retries = DefaultMaxRetries
    /\ pc = "none"
    /\ calls = <<>>
    /\ disk = <<>>
    /\ handler = <<>>
    /\ downloaded = 0
    /\ retry_count = 0
    /\ consecutive_failures = 0
    /\ chunk_size = 0
    /\ range_from = 0
    /\ last_error = ""
    /\ expected_total = 0
    /\ bytes_in_chunk = 0
    /\ body_pos = 0
    /\ file_exists = FALSE
    /\ file = <<>>
    /\ partial = <<>>
    /\ wait_time = 0
    /\ range_ignored = 0
    /\ result = "running"
    /\ on_progress = "none"
    /\ progress_calls = 0
    /\ reported = 0
    /\ requests = 0

\* The handler tasks that call resolve() on the one instance get_resolver
\* hands out.
Callers == {1, 2, 3}

\* A lock that lets every caller in.
LockFreeAlways(l) == TRUE

\* asyncio.Lock.acquire takes the lock at once when it is unlocked and
\* nobody waits for it
LockFree(l) == l.holder = 0 /\ l.waiters = <<>>

\* asyncio.Lock.release: the lock is unlocked, the first waiter is woken
Release(l) == [l EXCEPT !.holder = 0]

\* The callers inside `async with self._lock`.
InLock == {c \in Callers : resolving[c] \in {"locked", "working", "closing"}}

\* __init__: self._client = None; self._lock = asyncio.Lock()
ResolverInit ==
    /\ NoCall
    /\ LeechIdle
    /\ lock = [holder |-> 0, waiters |-> <<>>]
    /\ client = [current |-> 0, made |-> 0, open |-> {}]
    /\ resolving = [c \in Callers |-> "idle"]
    /\ users_col = <<>>
    /\ counting = <<>>

\* resolve(): async with self._lock, taken at once or waited for
ResolveEnter(c) ==
    /\ resolving[c] = "idle"
    /\ IF LockFree(lock)
         THEN /\ lock' = [lock EXCEPT !.holder = c]
              /\ resolving' = [resolving EXCEPT ![c] = "locked"]
         ELSE /\ lock' = [lock EXCEPT !.waiters = Append(@, c)]
              /\ resolving' = [resolving EXCEPT ![c] = "waiting"]
    /\ UNCHANGED <<locals, calls, disk, handler, running, updater_task,
                   temp_path, upload_success, thumb, client, users_col,
                   counting>>

\* The first waiter, woken by release, takes the lock.
ResolveWakes(c) ==
    /\ resolving[c] = "waiting"
    /\ lock.holder = 0
    /\ lock.waiters # <<>>
    /\ Head(lock.waiters) = c
    /\ lock' = [holder |-> c, waiters |-> Tail(lock.waiters)]
    /\ resolving' = [resolving EXCEPT ![c] = "locked"]
    /\ UNCHANGED <<locals, calls, disk, handler, running, updater_task,
                   temp_path, upload_success, thumb, client, users_col,
                   counting>>

\* After the sleep of the rate limit the first method asks for the client:
\* get_client makes one when self._client is None
ResolveGetsClient(c) ==
    /\ resolving[c] = "locked"
    /\ client' = IF client.current = 0
                    THEN [current |-> client.made + 1,
                          made |-> client.made + 1,
                          open |-> client.open \cup {client.made + 1}]
                    ELSE client
    /\ resolving' = [resolving EXCEPT ![c] = "working"]
    /\ UNCHANGED <<locals, calls, disk, handler, running, updater_task,
                   temp_path, upload_success, thumb, lock, users_col,
                   counting>>

\* A method found the file: return FileMeta(...), the lock is released
ResolveSucceeds(c) ==
    /\ resolving[c] = "working"
    /\ lock' = Release(lock)
    /\ resolving' = [resolving EXCEPT ![c] = "returned"]
    /\ UNCHANGED <<locals, calls, disk, handler, running, updater_task,
                   temp_path, upload_success, thumb, client, users_col,
                   counting>>

\* except Exception as e: await self.close().  With a client,
\* self._client.aclose() is awaited; with none, RuntimeError is raised at
\* once and the lock is released.
ResolveFails(c) ==
    /\ resolving[c] \in {"locked", "working"}
    /\ IF client.current # 0
         THEN /\ resolving' = [resolving EXCEPT ![c] = "closing"]
              /\ lock' = lock
         ELSE /\ resolving' = [resolving EXCEPT ![c] = "raised"]
              /\ lock' = Release(lock)
    /\ UNCHANGED <<locals, calls, disk, handler, running, updater_task,
                   temp_path, upload_success, thumb, client, users_col,
                   counting>>

\* aclose() is over: self._client = None; raise RuntimeError(...), the lock
\* is released
ResolveClosed(c) ==
    /\ resolving[c] = "closing"
    /\ client' = [client EXCEPT !.current = 0, !.open = @ \ {client.current}]
    /\ lock' = Release(lock)
    /\ resolving' = [resolving EXCEPT ![c] = "raised"]
    /\ UNCHANGED <<locals, calls, disk, handler, running, updater_task,
                   temp_path, upload_success, thumb, users_col, counting>>

ResolverNext ==
    \E c \in Callers :
        \/ ResolveEnter(c)
        \/ ResolveWakes(c)
        \/ ResolveGetsClient(c)
        \/ ResolveSucceeds(c)
        \/ ResolveFails(c)
        \/ ResolveClosed(c)

\* Every await of resolve() comes to an end: the sleep, the requests, the
\* aclose.
ResolverSpec == ResolverInit /\ [][ResolverNext]_vars /\ WF_vars(ResolverNext)

\* ------------------------- verification.py: increment_user_leech_count
\* The handler tasks that call increment_user_leech_count for the one user.
Tasks == {1, 2, 3}

\* The user has no document, or one with leech_count 0 (the document
\* record_user_verification inserts).
CountInit ==
    /\ NoCall
    /\ LeechIdle
    /\ lock = <<>>
    /\ client = <<>>
    /\ resolving = <<>>
    /\ users_col \in {<<>>, <<0>>}
    /\ counting = [t \in Tasks |-> [pc |-> "find_one", user |-> -1, ret |-> 0]]

\* user = await users_col.find_one({"user_id": user_id}): the first
\* document of the user, -1 for None
FindOne(t) ==
    /\ counting[t].pc = "find_one"
    /\ counting' = [counting EXCEPT ![t] =
                       [pc |-> IF users_col = <<>> THEN "insert_one" ELSE "update_one",
                        user |-> IF users_col = <<>> THEN -1 ELSE users_col[1],
                        ret |-> 0]]
    /\ UNCHANGED <<locals, calls, disk, handler, running, updater_task,
                   temp_path, upload_success, thumb, lock, client, resolving,
                   users_col>>

\* if not user: await users_col.insert_one({..., "leech_count": 1}); return 1
InsertOne(t) ==
    /\ counting[t].pc = "insert_one"
    /\ users_col' = Append(users_col, 1)
    /\ counting' = [counting EXCEPT ![t].pc = "returned", ![t].ret = 1]
    /\ UNCHANGED <<locals, calls, disk, handler, running, updater_task,
                   temp_path, upload_success, thumb, lock, client, resolving>>

\* new_count = user.get("leech_count", 0) + 1; await users_col.update_one(
\* {"user_id": user_id}, {"$set": {"leech_count": new_count}});
\* return new_count
UpdateOne(t) ==
    /\ counting[t].pc = "update_one"
    /\ LET new_count == counting[t].user + 1
       IN  /\ users_col' = IF users_col = <<>> THEN users_col
                            ELSE [users_col EXCEPT ![1] = new_count]
           /\ counting' = [counting EXCEPT ![t].pc = "returned",
                                            ![t].ret = new_count]
    /\ UNCHANGED <<locals, calls, disk, handler, running, updater_task,
                   temp_path, upload_success, thumb, lock, client, resolving>>

CountNext == \E t \in Tasks : FindOne(t) \/ InsertOne(t) \/ UpdateOne(t)

CountSpec == CountInit /\ [][CountNext]_vars

\* str(e) of the DownloadError that leaves fetch_to_temp: its words in lower
\* case, and the numbers written in it (the number of attempts).
DownloadErrorText(res, mr) ==
    IF res = "unstable"
      THEN [words |-> {"server", "connection", "unstable", "terabox", "servers",
                       "may", "be", "overloaded", "try", "again", "later"},
            numbers |-> {}]
    ELSE IF res = "exhausted"
      THEN [words |-> {"download", "failed", "after", "attempts", "connection",
                       "issues", "with", "terabox", "servers"},
            numbers |-> {mr}]
    ELSE IF res = "missing"
      THEN [words |-> {"downloaded", "file", "missing"}, numbers |-> {}]
    ELSE IF res = "empty"
      THEN [words |-> {"downloaded", "file", "is", "empty"}, numbers |-> {}]
    ELSE [words |-> {}, numbers |-> {}]

\* leech_handler_v2, except Exception as e: the reply chosen from what
\* error_msg contains
HandlerMessage(msg) ==
    IF 400 \in msg.numbers \/ "expired" \in msg.words THEN "fresh_link"
    ELSE IF "timeout" \in msg.words THEN "timeout"
    ELSE IF "space" \in msg.words \/ "disk" \in msg.words THEN "storage"
    ELSE "generic"

\* ----------------------------------------------------------------- claims

FatalSeen == last_error \in {"expired", "not_found", "denied"}
Terminated == pc \in {"returned", "raised", "cancelled"}
SizeKnown == hint # 0 \/ expected_total # 0
Resumed == range_from > 0

\* C1: a response with status 400, 403 or 404 ends the transfer on that very
\* response: after it the engine neither sleeps a backoff delay nor stands
\* before another round of the loop with budget left.
C1_FatalAborts ==
    FatalSeen => /\ pc # "sleep"
                 /\ ~(pc = "loop" /\ retry_count < max_retries)

\* C2: when a resumed transfer has returned, the file begins with the partial
\* file as it stood when the Range request was sent, and its length is the
\* size of the resource when that size is known.
C2_ResumeKeepsPrefixAndLength ==
    (pc = "returned" /\ Resumed) =>
        /\ IsPrefix(partial, file)
        /\ SizeKnown => FileLen(file) = size

\* C3: when a Range request is answered with the whole resource (the body
\* starts at offset 0) and bytes of it have been written, the file holds
\* nothing but those bytes: the body was not appended behind the bytes
\* already on disk.
C3_NoFullBodyAppended ==
    (pc = "stream" /\ Resumed /\ bytes_in_chunk > 0 /\ body_pos = bytes_in_chunk)
        => FileLen(file) = bytes_in_chunk

\* C4: the call terminates, and it returns only out of an attempt whose
\* stream ended complete; with nothing but failures it ends by raising.
C4_Terminates ==
    /\ <>Terminated
    /\ [](pc = "returned" => Complete(expected_total, downloaded, bytes_in_chunk))

C4_Witness ==
    /\ pc = "raised"
    /\ retry_count = max_retries
    /\ max_retries = DefaultMaxRetries
    /\ result \in {"exhausted", "unstable"}

\* C5: retry_count never exceeds max_retries, and once it has reached
\* max_retries no request is in flight, no body is streamed and no backoff
\* is slept: the call stands at the loop test or has raised the exhaustion
\* error.
C5_CeilingRespected ==
    /\ retry_count <= max_retries
    /\ retry_count >= max_retries =>
          /\ pc \in {"loop", "raised"}
          /\ pc = "raised" => result \in {"exhausted", "unstable"}

C5_Witness ==
    /\ pc = "raised"
    /\ retry_count = DefaultMaxRetries
    /\ last_error = "timeout"
    /\ result = "exhausted"

\* C6: with a known expected total, a stream that ends without an exception
\* short of that total is not a success: it costs one retry; and a call that
\* has left the loop through break or returned holds at least the expected
\* total on disk.
C6_ShortReadIsFailure ==
    /\ [](pc \in {"finish", "returned"} /\ expected_total # 0
            => downloaded >= expected_total /\ FileLen(file) >= expected_total)
    /\ [][(/\ pc = "stream"
           /\ pc' = "finish" \/ last_error' = "incomplete"
           /\ expected_total # 0
           /\ downloaded < expected_total)
          => (pc' # "finish" /\ retry_count' = retry_count + 1)]_vars

C6_Witness ==
    /\ pc = "sleep"
    /\ last_error = "incomplete"
    /\ hint # 0
    /\ downloaded > 0

\* C7: when the call has returned and the expected size is known, the bytes
\* written and the length of the file are exactly that size.
C7_ExactSizeOnSuccess ==
    (pc = "returned" /\ SizeKnown) =>
        /\ downloaded = size
        /\ FileLen(file) = size

\* C8: no step of the call decreases downloaded.
C8_DownloadedMonotonic == [][downloaded' >= downloaded]_vars

C8_Witness ==
    /\ pc = "stream"
    /\ retry_count > 1
    /\ Resumed
    /\ bytes_in_chunk > 0
    /\ body_pos = size

\* C9: as long as the temp file is there its length is downloaded, so every
\* chunk lands at the offset downloaded had before the write.
C9_FileLengthIsDownloaded == file_exists => FileLen(file) = downloaded

C9_Witness ==
    /\ pc = "stream"
    /\ Resumed
    /\ bytes_in_chunk > 0
    /\ file = <<<<0, downloaded>>>>

\* C10: from one attempt to the next the chunk size never grows.
C10_ChunkSizeNeverGrows == [][chunk_size = 0 \/ chunk_size' <= chunk_size]_vars

\* C11: for every file size (unknown, small, medium, large) and every attempt
\* from 1 on, the chunk size calculate_optimal_chunk_size returns is at least
\* 32768 bytes.
C11_ChunkSizeFloor == pc = "chunk_done" => chunk_size >= 32768

C11_Witness ==
    /\ pc = "chunk_done"
    /\ retry_count + 1 > 6
    /\ meta_size # 0
    /\ meta_size < 5 * 1024 * 1024
    /\ chunk_size = 32768

\* C12 as stated: on a failure outcome with at least one byte written the
\* engine leaves the partial temp file on disk.
C12_PartialFileKept == (pc = "raised" /\ downloaded > 0) => file_exists

\* C12: on every failure outcome the engine itself ends with, bytes written
\* or not, no file is left at the temp path: the exhaustion path removes it.
C12_FailureRemovesFile == pc = "raised" => ~file_exists /\ file = <<>>

C12_Witness ==
    /\ pc = "raised"
    /\ downloaded > 0
    /\ result \in {"exhausted", "unstable"}
    /\ ~file_exists

C14_StorageErrorIsFatal ==
    last_error = "oserror" => /\ pc # "sleep"
                              /\ ~(pc = "loop" /\ retry_count < max_retries)

\* C15: every attempt that ends in a failure (the request or the stream gives
\* way to the loop test or to a backoff sleep) raises retry_count by exactly 1.
C15_EveryFailureCounted ==
    [][(pc \in {"request", "stream"} /\ pc' \in {"loop", "sleep"})
          => retry_count' = retry_count + 1]_vars

\* C16: when the call has ended on an answer 400, 403 or 404, the error it
\* raises is not the one of an exhausted retry budget, and for the expired
\* link (400) the handler replies with the "fresh link" message.
C16_ExpiredLinkDistinct ==
    (pc = "raised" /\ FatalSeen) =>
        /\ result \notin {"exhausted", "unstable"}
        /\ last_error = "expired" =>
              HandlerMessage(DownloadErrorText(result, max_retries)) = "fresh_link"

\* C17: a call that was not cancelled ends in one of two ways: it returns
\* for a file that exists and is not empty, out of an attempt that did not
\* fail, or it raises one of the DownloadErrors of lines 257-284; no raw
\* httpx or OS exception of the loop is what the caller gets.
C17_TypedOutcome ==
    /\ pc = "returned" => /\ result = "ok"
                          /\ file_exists
                          /\ FileLen(file) > 0
                          /\ last_error = ""
    /\ pc = "raised" => result \in {"unstable", "exhausted", "missing", "empty"}
    /\ result \notin {"timeout", "http", "other", "oserror", "status",
                      "incomplete", "expired", "not_found", "denied"}

C17_Witness ==
    /\ pc = "raised"
    /\ last_error \in {"oserror", "other"}
    /\ result = "exhausted"

\* C18: whatever callback was passed and whatever it does when invoked, a
\* chunk and the end of a stream do to the transfer (file, downloaded,
\* retry_count, position and outcome of the call) exactly what they do with
\* on_progress = None; the calls start alike and no other step reads the
\* callback, so they end with the same file, counters and outcome.
C18_CallbackChangesNothing ==
    [][/\ (\E choice \in BOOLEAN : WriteChunkEngine(on_progress, choice))
              => WriteChunkEngine("none", FALSE)
       /\ (\E choice \in BOOLEAN : StreamEndEngine(on_progress, choice))
              => StreamEndEngine("none", FALSE)]_vars

C18_Witness ==
    /\ on_progress = "raising"
    /\ pc = "returned"
    /\ reported = downloaded
    /\ retry_count = 0
    /\ result = "ok"

\* Chunks the current attempt has written: all of chunk_size bytes but, at
\* the end of the body, the last.
ChunksWritten == (bytes_in_chunk + chunk_size - 1) \div chunk_size

\* C19: while an attempt streams chunks smaller than 1 MiB with a callback
\* passed, the callback has been invoked fewer times than chunks were
\* written, as soon as there are two chunks or more.
C19_ProgressThrottled ==
    (/\ pc = "stream"
     /\ on_progress # "none"
     /\ chunk_size < 1024 * 1024
     /\ ChunksWritten >= 2) => progress_calls < ChunksWritten

\* C20: a cancellation that arrives while the call waits for the response,
\* for a chunk of the body or in a backoff sleep ends the call with the
\* CancelledError: the step counts no failure, leaves downloaded and the
\* temp file as they are, and no step follows it; the file left on disk
\* holds exactly the bytes written so far.
C20_CancellationEndsCall ==
    /\ [][(RequestFails("cancelled") \/ StreamFails("cancelled") \/ SleepCancelled)
            => /\ pc' = "cancelled"
               /\ result' = "cancelled"
               /\ retry_count' = retry_count
               /\ consecutive_failures' = consecutive_failures
               /\ downloaded' = downloaded
               /\ file' = file
               /\ file_exists']_vars
    /\ [][pc # "cancelled"]_vars
    /\ [](pc = "cancelled" => file_exists /\ FileLen(file) = downloaded)

C20_Witness ==
    /\ pc = "cancelled"
    /\ result = "cancelled"
    /\ retry_count > 0
    /\ downloaded > 0
    /\ downloaded < size
    /\ file = <<<<0, downloaded>>>>

\* A call owns a temp file from mkstemp until the exhaustion path removed it.
OwnsFile(c) == calls[c].pc \notin {"start", "raised"}

\* The temp file of a call, as the disk holds it (-1: none).
FileOf(c) == IF OwnsFile(c) THEN disk[calls[c].temp_path] ELSE -1

\* C21: of two concurrent calls each has its own temp file and counters: a
\* step of one call leaves the other's downloaded, retry_count,
\* consecutive_failures and temp file as they are, the two temp paths
\* differ while both calls have one, and a call's file holds its own bytes
\* and no others.
C21_CallsIsolated ==
    /\ [][\A c \in Calls : calls'[c] # calls[c] =>
             \A d \in Calls \ {c} : /\ calls'[d] = calls[d]
                                    /\ FileOf(d)' = FileOf(d)]_vars
    /\ [](\A c \in Calls, d \in Calls :
             (c # d /\ OwnsFile(c) /\ OwnsFile(d))
                => calls[c].temp_path # calls[d].temp_path)
    /\ [](\A c \in Calls :
             OwnsFile(c) => FileOf(c) = calls[c].downloaded)

C21_Witness ==
    /\ calls # <<>>
    /\ calls[1].pc = "stream"
    /\ calls[2].pc = "stream"
    /\ calls[1].downloaded > 0
    /\ calls[2].downloaded > calls[1].downloaded
    /\ calls[2].retry_count > 0
    /\ calls[1].retry_count = 0

\* C22: when the call has ended, by return or by raise, the size of the
\* caller's FileMeta is the size it had before the call.
C22_MetaUnchanged == pc \in {"returned", "raised"} => meta_size = hint

\* C23: when the call has returned, meta.size is the length of the temp
\* file on disk and the final value of downloaded.
C23_ReturnedSizeIsFileLength ==
    pc = "returned" => /\ file_exists
                       /\ meta_size = FileLen(file)
                       /\ meta_size = downloaded

C23_Witness ==
    /\ pc = "returned"
    /\ hint = 0
    /\ retry_count > 0
    /\ meta_size = size
    /\ file = <<<<0, size>>>>

\* C24: a known size above the handler's limit (80 MiB in leech.py, 120 MiB
\* in leech (2).py) is turned away before fetch_to_temp is called and the
\* handler does nothing after the rejection; a size that equals the limit
\* is not turned away for its size.
C24_SizeLimitEnforced ==
    /\ [](meta_size > HandlerLimit(handler.name)
            => pc \in {"handler_check", "handler_rejected"})
    /\ []((pc = "handler_rejected" /\ result = "too_large")
            => meta_size > HandlerLimit(handler.name))
    /\ []((pc = "handler_rejected" /\ handler.name = "leech")
            => result = "too_large")
    /\ [][pc # "handler_rejected"]_vars

C24_Witness ==
    /\ handler # <<>>
    /\ handler.name = "leech"
    /\ pc = "handler_rejected"
    /\ result = "too_large"
    /\ meta_size = DefaultMaxSize + 1

\* A size that equals the limit goes on to fetch_to_temp.
C24_WitnessAtLimit ==
    /\ handler # <<>>
    /\ pc = "handler_fetch"
    /\ meta_size = HandlerLimit(handler.name)

\* C25: no step takes more than one chunk of the body, a chunk has at most
\* chunk_size bytes, chunk_size is at most 1 MiB whatever the size of the
\* file, and every chunk is in the file before the next is read: while the
\* body is streamed the file holds all of downloaded.
C25_OneChunkInMemory ==
    /\ [][/\ downloaded' - downloaded <= chunk_size
          /\ FileLen(file') - FileLen(file) <= chunk_size]_vars
    /\ [](pc = "stream" => /\ chunk_size >= 32768
                           /\ chunk_size <= 1024 * 1024
                           /\ FileLen(file) = downloaded)

C25_Witness ==
    /\ pc = "stream"
    /\ size = MediumSize
    /\ chunk_size < size
    /\ bytes_in_chunk >= 3 * chunk_size
    /\ FileLen(file) = downloaded

\* C26: when an attempt that wrote at least one chunk fails and the call
\* goes on, the chunk size the next attempt will compute (from meta.size and
\* retry_count as the failure leaves them) is the chunk size of the failed
\* attempt.
C26_ProgressKeepsChunkSize ==
    [][(/\ pc = "stream"
        /\ bytes_in_chunk > 0
        /\ pc' \in {"sleep", "loop"}
        /\ retry_count' < max_retries)
          => calculate_optimal_chunk_size(meta_size', retry_count' + 1)
                = chunk_size]_vars

\* C27: with base the size of the first attempt for the file's class,
\* attempts 1-3 use base, attempts 4-6 half of it, and attempts from 7 on
\* the floor of 32768 bytes, in every class.
C27_ThreeTiers ==
    pc = "chunk_done" =>
        LET attempt == retry_count + 1
            base == calculate_optimal_chunk_size(meta_size, 1)
        IN  /\ attempt <= 3 => chunk_size = base
            /\ (attempt >= 4 /\ attempt <= 6) => chunk_size = base \div 2
            /\ attempt >= 7 => chunk_size = 32768

\* C28: the delay slept after a counted failure is at least the delay slept
\* after the one before it, whatever the classes of the two failures, and
\* no delay exceeds the cap of its class (15, 30, 45 seconds).
C28_BackoffNeverShrinks ==
    /\ [][wait_time' >= wait_time]_vars
    /\ [](wait_time <= (IF ExceptClause(last_error) = "timeout" THEN 15
                        ELSE IF ExceptClause(last_error) = "http" THEN 30
                        ELSE 45))

\* C29: a request sent while downloaded > 0 carries Range: bytes=downloaded-
\* and a request sent while downloaded = 0 carries no Range header; when the
\* response is accepted the file is opened for appending in the first case
\* (its content stays) and afresh in the second (it is empty).
C29_RangeAndOpenMode ==
    /\ [](pc = "request" => range_from = downloaded)
    /\ [][(pc = "request" /\ pc' = "stream")
            => /\ downloaded' = downloaded
               /\ file' = IF downloaded > 0 THEN file ELSE <<>>]_vars

C29_Witness ==
    /\ pc = "stream"
    /\ retry_count > 0
    /\ range_from = downloaded
    /\ downloaded > 0
    /\ bytes_in_chunk = 0
    /\ file = <<<<0, downloaded>>>>

\* C30: a 200/206 response that carries Content-Length sets expected_total
\* to downloaded plus that length (the length of the body the server
\* sends), one without the header sets it to meta.size; and an attempt is
\* taken as complete against expected_total, whatever the caller's hint.
C30_ContentLengthAuthoritative ==
    /\ [][(\E status \in {200, 206} : RespondOK(status, TRUE))
            => expected_total' = downloaded + (size - body_pos')]_vars
    /\ [][(\E status \in {200, 206} : RespondOK(status, FALSE))
            => expected_total' = meta_size]_vars
    /\ [][(pc = "stream" /\ pc' = "finish" /\ expected_total # 0)
            => downloaded >= expected_total]_vars

C30_Witness ==
    /\ pc = "finish"
    /\ hint # 0
    /\ expected_total # hint
    /\ expected_total # 0
    /\ downloaded >= expected_total

\* C31: a stream on which no bytes arrive does not stay stalled for ever:
\* the attempt ends, the end counts as one failure of the timeout class
\* (retry_count grows by 1, a backoff or the loop test follows) and leaves
\* downloaded and the file as they are, and the request that follows asks
\* for the bytes from downloaded on.
C31_StallIsAborted ==
    /\ (pc = "stalled") ~> (pc # "stalled")
    /\ [][pc = "stalled" =>
            /\ pc' \in {"sleep", "loop"}
            /\ ExceptClause(last_error') = "timeout"
            /\ retry_count' = retry_count + 1
            /\ downloaded' = downloaded
            /\ file' = file]_vars
    /\ []((pc = "request" /\ retry_count > 0) => range_from = downloaded)

C31_Witness ==
    /\ pc = "sleep"
    /\ last_error = "read_timeout"
    /\ retry_count = 1
    /\ wait_time = 1
    /\ downloaded > 0
    /\ file = <<<<0, downloaded>>>>


\* C32: one call sends at most 2 * max_retries + 1 requests: a response with
\* an unexpected status is answered by a new request that costs no retry
\* only while consecutive_failures stays below 3, and consecutive_failures
\* goes down only by the reset to 0 of a response with status 200 or 206.
C32_RequestsBounded ==
    /\ [](requests <= 2 * max_retries + 1)
    /\ [][(pc = "request" /\ pc' = "loop" /\ retry_count' = retry_count)
            => /\ last_error' = "unexpected"
               /\ consecutive_failures' = consecutive_failures + 1
               /\ consecutive_failures' < 3]_vars
    /\ [][consecutive_failures' < consecutive_failures
            => /\ consecutive_failures' = 0
               /\ pc = "request"
               /\ pc' = "stream"]_vars

C32_Witness ==
    /\ max_retries = DefaultMaxRetries
    /\ requests = 2 * DefaultMaxRetries + 1
    /\ retry_count = max_retries
    /\ result \in {"exhausted", "unstable"}

\* C33: between two requests of one call lies a backoff sleep of at least
\* 1 second: a round that has sent its request is followed by a next round
\* only through the sleep, and the failure that uses up the retry budget is
\* followed by no sleep.
C33_SleepBetweenRequests ==
    /\ [][(pc \in {"request", "stream"} /\ pc' = "loop")
            => ~LoopCondition(retry_count', max_retries)]_vars
    /\ [][pc' = "sleep" => wait_time' >= 1]_vars
    /\ [](pc = "sleep" => retry_count < max_retries)

\* C34: the loop is left by break only with downloaded >= 1 and
\* retry_count < max_retries, so a call that left by break never takes the
\* branch of exhaustion, the call that returns has its file, and a file once
\* removed is the file of no call that returns.
C34_SuccessExcludesExhaustion ==
    /\ [](pc = "finish" => downloaded >= 1 /\ retry_count < max_retries)
    /\ [][pc = "finish" => result' \notin {"exhausted", "unstable"}]_vars
    /\ [][result' \in {"exhausted", "unstable"}
            => pc = "loop" /\ retry_count >= max_retries]_vars
    /\ [](pc = "returned" => result = "ok" /\ file_exists /\ FileLen(file) >= 1)
    /\ [][~file_exists => ~file_exists' /\ result' # "ok"]_vars

C34_Witness ==
    /\ pc = "returned"
    /\ result = "ok"
    /\ file_exists
    /\ retry_count = max_retries - 1
    /\ retry_count > 0

\* C35: over all the invocations of on_progress in one call the reported
\* bytes_done never goes down, and when the call returns the last invocation
\* has reported the length of the file.
C35_ProgressMonotone ==
    /\ [][reported' >= reported]_vars
    /\ []((pc = "returned" /\ on_progress # "none") => reported = FileLen(file))

C35_Witness ==
    /\ pc = "returned"
    /\ on_progress = "flaky"
    /\ retry_count > 0
    /\ range_ignored > 0
    /\ reported = FileLen(file)
    /\ reported > size

\* C36: once running is False (fetch_to_temp has returned or raised) the
\* task of progress_loop starts no edit of the status message, and when the
\* handler is left, by return or by CancelledError, the task it created is
\* over: cancelled, or ended by itself, and awaited.
C36_ProgressTaskStopped ==
    /\ [][(updater_task' = "editing" /\ updater_task # "editing") => running]_vars
    /\ [](pc \in {"returned", "raised"} => running)
    /\ [][(pc \in {"returned", "raised"} /\ pc' # pc) => ~running']_vars
    /\ [](pc \in {"handler_done", "handler_cancelled"}
            => ~running /\ updater_task \in {"done", "cancelled"})

C36_Witness ==
    /\ pc = "handler_done"
    /\ updater_task = "cancelled"
    /\ upload_success = "failed"
    /\ ~running

\* C37: when the handler has returned, no temp file made for the request is
\* on disk: not the file of fetch_to_temp, not the thumbnail of the upload.
C37_NoTempFileLeft ==
    [](pc = "handler_done" => ~file_exists /\ ~thumb)

\* C38: when phase2_leech_handler has returned, the temp file that
\* download_file_phase2 created is deleted, whether the download was
\* answered with a status other than 200, broke off, came out empty, or the
\* upload went through or failed.
C38_Phase2TempFileDeleted ==
    [](pc = "p2_done" => ~file_exists)

\* C39: at most one caller of resolve() is inside the locked section; a
\* caller that has left it, by return or by RuntimeError, does not hold the
\* lock, and every waiting caller gets in; a resolve that failed leaves
\* self._client None with no client open, and the client a resolve works
\* with is open, a new one when self._client was None.
C39_ResolveSerialized ==
    /\ [](Cardinality(InLock) <= 1)
    /\ [](\A c \in Callers : c \in InLock <=> lock.holder = c)
    /\ \A c \in Callers : (resolving[c] = "waiting") ~> (resolving[c] \in {"returned", "raised"})
    /\ [][\A c \in Callers :
            (resolving[c] # "raised" /\ resolving'[c] = "raised")
                => client'.current = 0 /\ client'.open = {}]_vars
    /\ [][\A c \in Callers :
            (resolving[c] = "locked" /\ resolving'[c] = "working")
                => /\ client'.current \in client'.open
                   /\ client.current = 0 => client'.current > client.made]_vars

C39_Witness ==
    /\ \E c \in Callers : resolving[c] = "raised"
    /\ \E c \in Callers : resolving[c] = "working"
    /\ \E c \in Callers : resolving[c] = "waiting"
    /\ client.made = 2
    /\ client.open = {2}

\* C40: when the n calls of increment_user_leech_count for the user have
\* returned, the user has one document, its leech_count has grown by n, and
\* no two calls have returned the same count.
C40_CountsEveryCall ==
    (\A t \in Tasks : counting[t].pc = "returned")
        => /\ Len(users_col) = 1
           /\ users_col[1] = Cardinality(Tasks)
           /\ \A t, u \in Tasks : t # u => counting[t].ret # counting[u].ret

=============================================================================
